---- MODULE Spec2Model ----
(***************************************************************************)
(* Model of hola.py: an Alexa skill made of four request handlers and one  *)
(* catch-all exception handler registered on a SkillBuilder, and of the    *)
(* dispatch that `handler = sb.lambda_handler()` performs for every event.  *)
(*                                                                         *)
(* hola.py calls into ask_sdk_core.  The calls it makes are modelled by    *)
(* what the SDK does for them:                                             *)
(*   is_request_type(t)   request.object_type == t                         *)
(*   is_intent_name(n)    isinstance(request, IntentRequest) and           *)
(*                        request.intent.name == n                         *)
(*   speak(t)             output_speech = SSML "<speak>" + t + "</speak>"  *)
(*   ask(t)               reprompt = SSML of t; should_end_session = False *)
(*   set_card(c)          card = c                                         *)
(*   set_should_end_session(b)   should_end_session = b                    *)
(*   dispatch             try: first chain whose can_handle is true, else  *)
(*                        raise DispatchException; run its handle          *)
(*                        except Exception as e: first exception handler   *)
(*                        whose can_handle is true handles e, else re-raise*)
(***************************************************************************)
EXTENDS Integers, Sequences, FiniteSets

VARIABLES
    main_pc,             \* number of registration statements (lines 116-122) executed
    request_handlers,    \* sb: request handlers in registration order
    exception_handlers,  \* sb: exception handlers in registration order
    pc,                  \* per invocation: position in the dispatch
    event,               \* per invocation: the incoming request
    response,            \* per invocation: handler_input.response_builder.response
    chain,               \* per invocation: handler selected by the request mapper
    evaluated,           \* per invocation: handlers whose can_handle was called, in order
    invoked,             \* per invocation: handlers whose handle was called, in order
    exc,                 \* per invocation: exception caught by the dispatcher
    fault,               \* per invocation: builder calls completed before handle raised
    logged               \* per invocation: what print(exception) wrote during the dispatch

vars == <<main_pc, request_handlers, exception_handlers, pc, event, response,
          chain, evaluated, invoked, exc, fault, logged>>

\* Number of invocations of `handler` that may be in progress at once.
NumInvocations == 2

Invocations == 1..NumInvocations

---------------------------------------------------------------------------
\* Python's None and a present value.
None == <<>>

Some(x) == <<x>>

\* Request types the Alexa service sends to the skill.
RequestTypes == {"LaunchRequest", "IntentRequest", "SessionEndedRequest"}

\* Intent names an event may carry: the four the skill registers and one it does not.
IntentNames == {"HolaMundoIntent", "AMAZON.HelpIntent", "AMAZON.CancelIntent",
                "AMAZON.StopIntent", "AMAZON.FallbackIntent"}

\* An intent name that an event of another request type may carry as a stray field.
StrayIntents == {"HolaMundoIntent"}

\* The events `handler` may be called with: an IntentRequest with any intent name or
\* with no intent object, and the other request types with no intent or a stray one.
Events ==
    [type : {"IntentRequest"}, intent : {None} \cup {Some(n) : n \in IntentNames}]
    \cup [type : RequestTypes \ {"IntentRequest"},
          intent : {None} \cup {Some(n) : n \in StrayIntents}]

NoEvent == [type |-> "None", intent |-> None]

---------------------------------------------------------------------------
\* ResponseFactory(): the empty response every invocation starts from.
EmptyResponse ==
    [output_speech |-> None, card |-> None, reprompt |-> None,
     should_end_session |-> None]

SsmlOutputSpeech(text) == [type |-> "SSML", ssml |-> "<speak>" \o text \o "</speak>"]

SimpleCard(title, content) == [type |-> "Simple", title |-> title, content |-> content]

speak(r, text) == [r EXCEPT !.output_speech = Some(SsmlOutputSpeech(text))]

\* ask that sets the reprompt and leaves should_end_session as it was.
ask_KeepsEndSession(r, text) ==
    [r EXCEPT !.reprompt = Some([output_speech |-> SsmlOutputSpeech(text)])]

ask(r, text) ==
    [r EXCEPT !.reprompt = Some([output_speech |-> SsmlOutputSpeech(text)]),
              !.should_end_session = Some(FALSE)]

set_card(r, card) == [r EXCEPT !.card = Some(card)]

set_should_end_session(r, flag) == [r EXCEPT !.should_end_session = Some(flag)]

\* One call on the response builder.
Apply(r, c) ==
    CASE c.op = "speak" -> speak(r, c.text)
      [] c.op = "ask" -> ask(r, c.text)
      [] c.op = "set_card" -> set_card(r, c.card)
      [] c.op = "set_should_end_session" -> set_should_end_session(r, c.flag)

\* The first n calls of a chained builder expression, left to right.
RECURSIVE RunCalls(_, _, _)
RunCalls(r, calls, n) ==
    IF n = 0 THEN r ELSE Apply(RunCalls(r, calls, n - 1), calls[n])

---------------------------------------------------------------------------
\* A predicate's outcome: "True", "False", or the exception it raises.
is_request_type(name, ev) == IF ev.type = name THEN "True" ELSE "False"

\* is_intent_name without the test that the request is an IntentRequest.
is_intent_name_AnyType(name, ev) ==
    IF ev.intent = None THEN "AttributeError"
    ELSE IF ev.intent[1] = name THEN "True" ELSE "False"

is_intent_name(name, ev) ==
    IF ev.type # "IntentRequest" THEN "False"
    ELSE IF ev.intent = None THEN "AttributeError"
    ELSE IF ev.intent[1] = name THEN "True" ELSE "False"

\* Python's `a or b`: b is evaluated only when a is false.
Or(a, b) == IF a = "False" THEN b ELSE a

LaunchRequestHandler_can_handle(ev) == is_request_type("LaunchRequest", ev)

LaunchRequestHandler_speech_text ==
    "Hola, Bienvenido al Kit de Skills de la Alexa, ahora puedes decir Hola Mundo!"

\* The launch handler ending the session.
LaunchRequestHandler_calls_EndsSession ==
    << [op |-> "speak", text |-> LaunchRequestHandler_speech_text],
       [op |-> "set_card",
        card |-> SimpleCard("Hola Mundo", LaunchRequestHandler_speech_text)],
       [op |-> "set_should_end_session", flag |-> TRUE] >>

LaunchRequestHandler_calls ==
    << [op |-> "speak", text |-> LaunchRequestHandler_speech_text],
       [op |-> "set_card",
        card |-> SimpleCard("Hola Mundo", LaunchRequestHandler_speech_text)],
       [op |-> "set_should_end_session", flag |-> FALSE] >>

\* The HolaMundo predicate looking at the intent name of any request type.
HolaMundoIntentHandler_can_handle_AnyType(ev) ==
    IF ev.intent = Some("HolaMundoIntent") THEN "True" ELSE "False"

HolaMundoIntentHandler_can_handle(ev) == is_intent_name("HolaMundoIntent", ev)

HolaMundoIntentHandler_speech_text ==
    "El mundo es un lugar maravilloso, lástima que los humanos no lo cuidan como debería ser"

HolaMundoIntentHandler_calls ==
    << [op |-> "speak", text |-> HolaMundoIntentHandler_speech_text],
       [op |-> "set_card",
        card |-> SimpleCard("Hola Mundo", HolaMundoIntentHandler_speech_text)],
       [op |-> "set_should_end_session", flag |-> TRUE] >>

HelpIntentHandler_can_handle(ev) == is_intent_name("AMAZON.HelpIntent", ev)

HelpIntentHandler_speech_text ==
    "Puedes decirme Hola Mundo y te responderé que pienso!"

\* The help handler without its .ask(speech_text).
HelpIntentHandler_calls_NoAsk ==
    << [op |-> "speak", text |-> HelpIntentHandler_speech_text],
       [op |-> "set_card",
        card |-> SimpleCard("Hola Mundo", HelpIntentHandler_speech_text)] >>

HelpIntentHandler_calls ==
    << [op |-> "speak", text |-> HelpIntentHandler_speech_text],
       [op |-> "ask", text |-> HelpIntentHandler_speech_text],
       [op |-> "set_card",
        card |-> SimpleCard("Hola Mundo", HelpIntentHandler_speech_text)] >>

\* The cancel/stop predicate without its second disjunct.
CancelAndStopIntentHandler_can_handle_CancelOnly(ev) ==
    is_intent_name("AMAZON.CancelIntent", ev)

CancelAndStopIntentHandler_can_handle(ev) ==
    Or(is_intent_name("AMAZON.CancelIntent", ev),
       is_intent_name("AMAZON.StopIntent", ev))

CancelAndStopIntentHandler_speech_text ==
    "Nos vemos luego, acuerdate de cuidar al mundo para que siga siendo un lugar maravilloso!"

CancelAndStopIntentHandler_calls ==
    << [op |-> "speak", text |-> CancelAndStopIntentHandler_speech_text],
       [op |-> "set_card",
        card |-> SimpleCard("Hola Mundo", CancelAndStopIntentHandler_speech_text)],
       [op |-> "set_should_end_session", flag |-> TRUE] >>

\* An exception handler that declines the dispatcher's own exception.
AllExceptionHandler_can_handle_HandlerErrorsOnly(ev, e) ==
    IF e = "DispatchException" THEN "False" ELSE "True"

AllExceptionHandler_can_handle(ev, e) == "True"

AllExceptionHandler_speech ==
    "Ah caray, no lo he entendido. Puedes repetirmelo una vez más!!"

\* The exception handler without its .ask(speech).
AllExceptionHandler_calls_NoAsk ==
    << [op |-> "speak", text |-> AllExceptionHandler_speech] >>

AllExceptionHandler_calls ==
    << [op |-> "speak", text |-> AllExceptionHandler_speech],
       [op |-> "ask", text |-> AllExceptionHandler_speech] >>

\* can_handle of a registered request handler, by class name.
CanHandle(h, ev) ==
    CASE h = "LaunchRequestHandler" -> LaunchRequestHandler_can_handle(ev)
      [] h = "HolaMundoIntentHandler" -> HolaMundoIntentHandler_can_handle(ev)
      [] h = "HelpIntentHandler" -> HelpIntentHandler_can_handle(ev)
      [] h = "CancelAndStopIntentHandler" -> CancelAndStopIntentHandler_can_handle(ev)

\* The builder calls of a registered request handler's handle, by class name.
Calls(h) ==
    CASE h = "LaunchRequestHandler" -> LaunchRequestHandler_calls
      [] h = "HolaMundoIntentHandler" -> HolaMundoIntentHandler_calls
      [] h = "HelpIntentHandler" -> HelpIntentHandler_calls
      [] h = "CancelAndStopIntentHandler" -> CancelAndStopIntentHandler_calls

---------------------------------------------------------------------------
\* The registration statements of lines 116-120, in program order.
Registrations ==
    << [kind |-> "request", handler |-> "LaunchRequestHandler"],
       [kind |-> "request", handler |-> "HolaMundoIntentHandler"],
       [kind |-> "request", handler |-> "HelpIntentHandler"],
       [kind |-> "request", handler |-> "CancelAndStopIntentHandler"],
       [kind |-> "exception", handler |-> "AllExceptionHandler"] >>

\* `handler = sb.lambda_handler()` has run: the module is loaded.
Ready == main_pc = Len(Registrations) + 2

\* The request mapper's loop: can_handle of each chain in order, up to the first
\* that does not return False.  k is the number of predicates evaluated.
FirstHit(chains, ev) ==
    IF \E i \in 1..Len(chains) : CanHandle(chains[i], ev) # "False"
    THEN CHOOSE i \in 1..Len(chains) :
             /\ CanHandle(chains[i], ev) # "False"
             /\ \A j \in 1..(i - 1) : CanHandle(chains[j], ev) = "False"
    ELSE 0

\* A request mapper that calls every can_handle before it picks the first hit.
MapperResult_NoBreak(chains, ev) ==
    LET i == FirstHit(chains, ev) IN
    IF i = 0
    THEN [evaluated |-> chains, chain |-> "None", exc |-> "DispatchException"]
    ELSE IF CanHandle(chains[i], ev) = "True"
    THEN [evaluated |-> chains, chain |-> chains[i], exc |-> "None"]
    ELSE [evaluated |-> chains, chain |-> "None", exc |-> CanHandle(chains[i], ev)]

MapperResult(chains, ev) ==
    LET i == FirstHit(chains, ev) IN
    IF i = 0
    THEN [evaluated |-> chains, chain |-> "None", exc |-> "DispatchException"]
    ELSE IF CanHandle(chains[i], ev) = "True"
    THEN [evaluated |-> SubSeq(chains, 1, i), chain |-> chains[i], exc |-> "None"]
    ELSE [evaluated |-> SubSeq(chains, 1, i), chain |-> "None",
          exc |-> CanHandle(chains[i], ev)]

---------------------------------------------------------------------------
Init ==
    /\ main_pc = 1
    /\ request_handlers = <<>>
    /\ exception_handlers = <<>>
    /\ pc = [p \in Invocations |-> "idle"]
    /\ event = [p \in Invocations |-> NoEvent]
    /\ response = [p \in Invocations |-> EmptyResponse]
    /\ chain = [p \in Invocations |-> "None"]
    /\ evaluated = [p \in Invocations |-> <<>>]
    /\ invoked = [p \in Invocations |-> <<>>]
    /\ exc = [p \in Invocations |-> "None"]
    /\ fault = [p \in Invocations |-> None]
    /\ logged = [p \in Invocations |-> <<>>]

perInvocation == <<pc, event, response, chain, evaluated, invoked, exc, fault, logged>>

\* sb.add_request_handler(...), lines 116-119.
add_request_handler ==
    /\ main_pc <= Len(Registrations)
    /\ Registrations[main_pc].kind = "request"
    /\ request_handlers' = Append(request_handlers, Registrations[main_pc].handler)
    /\ main_pc' = main_pc + 1
    /\ UNCHANGED <<exception_handlers, perInvocation>>

\* sb.add_exception_handler(AllExceptionHandler()), line 120.
add_exception_handler ==
    /\ main_pc <= Len(Registrations)
    /\ Registrations[main_pc].kind = "exception"
    /\ exception_handlers' = Append(exception_handlers, Registrations[main_pc].handler)
    /\ main_pc' = main_pc + 1
    /\ UNCHANGED <<request_handlers, perInvocation>>

\* handler = sb.lambda_handler(), line 122.
lambda_handler ==
    /\ main_pc = Len(Registrations) + 1
    /\ main_pc' = main_pc + 1
    /\ UNCHANGED <<request_handlers, exception_handlers, perInvocation>>

registry == <<main_pc, request_handlers, exception_handlers>>

\* An invocation that starts on a response builder another invocation is using.
Invoke_SharedBuilder(p) ==
    /\ Ready
    /\ pc[p] = "idle"
    /\ \E ev \in Events : event' = [event EXCEPT ![p] = ev]
    /\ pc' = [pc EXCEPT ![p] = "dispatch"]
    /\ \E q \in Invocations : response' = [response EXCEPT ![p] = response[q]]
    /\ chain' = [chain EXCEPT ![p] = "None"]
    /\ evaluated' = [evaluated EXCEPT ![p] = <<>>]
    /\ invoked' = [invoked EXCEPT ![p] = <<>>]
    /\ exc' = [exc EXCEPT ![p] = "None"]
    /\ fault' = [fault EXCEPT ![p] = None]
    /\ logged' = [logged EXCEPT ![p] = <<>>]
    /\ UNCHANGED registry

\* The Alexa service calls handler(event, context): a fresh handler input with an
\* empty response builder.
Invoke(p) ==
    /\ Ready
    /\ pc[p] = "idle"
    /\ \E ev \in Events : event' = [event EXCEPT ![p] = ev]
    /\ pc' = [pc EXCEPT ![p] = "dispatch"]
    /\ response' = [response EXCEPT ![p] = EmptyResponse]
    /\ chain' = [chain EXCEPT ![p] = "None"]
    /\ evaluated' = [evaluated EXCEPT ![p] = <<>>]
    /\ invoked' = [invoked EXCEPT ![p] = <<>>]
    /\ exc' = [exc EXCEPT ![p] = "None"]
    /\ fault' = [fault EXCEPT ![p] = None]
    /\ logged' = [logged EXCEPT ![p] = <<>>]
    /\ UNCHANGED registry

\* The dispatcher asks the request mapper for the chain that can handle the input;
\* a raising predicate, or no chain at all (DispatchException), goes to the
\* dispatcher's except clause.
get_request_handler_chain(p) ==
    /\ pc[p] = "dispatch"
    /\ LET m == MapperResult(request_handlers, event[p]) IN
         /\ evaluated' = [evaluated EXCEPT ![p] = m.evaluated]
         /\ chain' = [chain EXCEPT ![p] = m.chain]
         /\ exc' = [exc EXCEPT ![p] = m.exc]
         /\ pc' = [pc EXCEPT ![p] = IF m.exc = "None" THEN "handle" ELSE "except"]
    /\ UNCHANGED <<registry, event, response, invoked, fault, logged>>

\* handle of the selected request handler: its builder calls in order.  The body
\* either runs to its return, or an exception is raised after n of its calls.
Handle(p, h) ==
    /\ pc[p] = "handle"
    /\ chain[p] = h
    /\ invoked' = [invoked EXCEPT ![p] = Append(@, h)]
    /\ \E n \in 0..Len(Calls(h)), raised \in BOOLEAN :
         /\ ~raised => n = Len(Calls(h))
         /\ response' = [response EXCEPT ![p] = RunCalls(@, Calls(h), n)]
         /\ fault' = [fault EXCEPT ![p] = IF raised THEN Some(n) ELSE None]
         /\ exc' = [exc EXCEPT ![p] = IF raised THEN "Error" ELSE "None"]
         /\ pc' = [pc EXCEPT ![p] = IF raised THEN "except" ELSE "done"]
    /\ UNCHANGED <<registry, event, chain, evaluated, logged>>

LaunchRequestHandler_handle(p) == Handle(p, "LaunchRequestHandler")

HolaMundoIntentHandler_handle(p) == Handle(p, "HolaMundoIntentHandler")

HelpIntentHandler_handle(p) == Handle(p, "HelpIntentHandler")

CancelAndStopIntentHandler_handle(p) == Handle(p, "CancelAndStopIntentHandler")

\* can_handle of a registered exception handler, by class name.
ExceptionCanHandle(h, ev, e) ==
    CASE h = "AllExceptionHandler" -> AllExceptionHandler_can_handle(ev, e)

\* The exception mapper's loop: the first exception handler whose can_handle is true.
ExceptionHandlerFor(handlers, ev, e) ==
    LET hits == {i \in 1..Len(handlers) : ExceptionCanHandle(handlers[i], ev, e) = "True"}
    IN  IF hits = {} THEN "None"
        ELSE handlers[CHOOSE i \in hits : \A j \in hits : i <= j]

\* The dispatcher's except clause: the exception handler logs the exception and
\* builds its response on the same response builder; with no handler for the
\* exception it is re-raised to the caller of handler(event, context).
AllExceptionHandler_handle(p) ==
    /\ pc[p] = "except"
    /\ IF ExceptionHandlerFor(exception_handlers, event[p], exc[p]) = "AllExceptionHandler"
       THEN /\ logged' = [logged EXCEPT ![p] = Append(@, exc[p])]
            /\ response' = [response EXCEPT
                   ![p] = RunCalls(@, AllExceptionHandler_calls,
                                   Len(AllExceptionHandler_calls))]
            /\ pc' = [pc EXCEPT ![p] = "done"]
       ELSE /\ pc' = [pc EXCEPT ![p] = "raised"]
            /\ UNCHANGED <<logged, response>>
    /\ UNCHANGED <<registry, event, chain, evaluated, invoked, exc, fault>>

\* The response (or the exception) reaches the caller; the invocation is over.
Return(p) ==
    /\ pc[p] \in {"done", "raised"}
    /\ pc' = [pc EXCEPT ![p] = "idle"]
    /\ event' = [event EXCEPT ![p] = NoEvent]
    /\ response' = [response EXCEPT ![p] = EmptyResponse]
    /\ chain' = [chain EXCEPT ![p] = "None"]
    /\ evaluated' = [evaluated EXCEPT ![p] = <<>>]
    /\ invoked' = [invoked EXCEPT ![p] = <<>>]
    /\ exc' = [exc EXCEPT ![p] = "None"]
    /\ fault' = [fault EXCEPT ![p] = None]
    /\ logged' = [logged EXCEPT ![p] = <<>>]
    /\ UNCHANGED registry

Next ==
    \/ add_request_handler
    \/ add_exception_handler
    \/ lambda_handler
    \/ \E p \in Invocations :
         \/ Invoke(p)
         \/ get_request_handler_chain(p)
         \/ LaunchRequestHandler_handle(p)
         \/ HolaMundoIntentHandler_handle(p)
         \/ HelpIntentHandler_handle(p)
         \/ CancelAndStopIntentHandler_handle(p)
         \/ AllExceptionHandler_handle(p)
         \/ Return(p)

Spec == Init /\ [][Next]_vars

---------------------------------------------------------------------------
\* Properties of the dispatch.

Done(p) == pc[p] = "done"

\* The response AllExceptionHandler.handle builds on an untouched builder.
ApologyResponse ==
    [output_speech |-> Some(SsmlOutputSpeech(AllExceptionHandler_speech)),
     card |-> None,
     reprompt |-> Some([output_speech |-> SsmlOutputSpeech(AllExceptionHandler_speech)]),
     should_end_session |-> Some(FALSE)]

\* C1: when the action of the selected handler raises, the response returned is
\* the exception handler's apology (its speech, and a reprompt equal to the speech),
\* and the error was printed exactly once during the dispatch.
C1_ActionErrorApologyLoggedOnce ==
    \A p \in Invocations :
        /\ Len(logged[p]) <= 1
        /\ (Done(p) /\ fault[p] # None) =>
               /\ response[p].output_speech = ApologyResponse.output_speech
               /\ response[p].reprompt = ApologyResponse.reprompt
               /\ logged[p] = <<"Error">>

\* A handler's action raised after some of its builder calls and the dispatch returned.
C1_Witness ==
    \E p \in Invocations :
        /\ Done(p)
        /\ fault[p] # None
        /\ fault[p][1] > 0
        /\ invoked[p] = <<"HolaMundoIntentHandler">>
        /\ logged[p] = <<"Error">>

\* An intent request whose name no registered predicate accepts.
Unmatched(ev) ==
    /\ ev.type = "IntentRequest"
    /\ ev.intent # None
    /\ ev.intent[1] \notin {"HolaMundoIntent", "AMAZON.HelpIntent",
                           "AMAZON.CancelIntent", "AMAZON.StopIntent"}

\* C2 as stated: an unmatched intent request, with no predicate or action raising,
\* ends in an outcome of its own, distinct from the one a handler fault gets, and
\* neither crashes nor returns an empty response.
C2_UnhandledRequestDistinct ==
    \A p \in Invocations :
        (pc[p] \in {"done", "raised"} /\ Unmatched(event[p])) =>
            /\ pc[p] # "raised"
            /\ response[p] # EmptyResponse
            /\ response[p] # ApologyResponse

\* C2 amended: an unmatched intent request makes the dispatcher raise
\* DispatchException, which the catch-all exception handler turns into the same
\* apology-and-reprompt response a handler fault gets; no request handler's action
\* runs, the exception is printed once, and nothing reaches the caller as an error.
C2_UnmatchedGetsApology ==
    \A p \in Invocations :
        (pc[p] \in {"except", "done", "raised"} /\ Unmatched(event[p])) =>
            /\ pc[p] # "raised"
            /\ exc[p] = "DispatchException"
            /\ invoked[p] = <<>>
            /\ Done(p) => /\ response[p] = ApologyResponse
                          /\ logged[p] = <<"DispatchException">>

\* The dispatch of an unmatched intent request returned.
C2_Witness ==
    \E p \in Invocations :
        /\ Done(p)
        /\ Unmatched(event[p])
        /\ evaluated[p] = request_handlers
        /\ response[p] = ApologyResponse

\* C3: for a LaunchRequest whose handling raises nothing, the response is the
\* greeting: the greeting as speech, a card titled "Hola Mundo" with the greeting
\* as body, and should_end_session false.
C3_LaunchGreeting ==
    \A p \in Invocations :
        (Done(p) /\ event[p].type = "LaunchRequest" /\ fault[p] = None) =>
            response[p] =
                [output_speech |->
                     Some(SsmlOutputSpeech(LaunchRequestHandler_speech_text)),
                 card |-> Some(SimpleCard("Hola Mundo", LaunchRequestHandler_speech_text)),
                 reprompt |-> None,
                 should_end_session |-> Some(FALSE)]

\* A LaunchRequest was dispatched and its handler returned.
C3_Witness ==
    \E p \in Invocations :
        /\ Done(p)
        /\ event[p].type = "LaunchRequest"
        /\ fault[p] = None
        /\ invoked[p] = <<"LaunchRequestHandler">>

Range(s) == {s[i] : i \in 1..Len(s)}

\* C4: for an IntentRequest named HolaMundoIntent whose handling raises nothing,
\* should_end_session is true and the speech is the handler's fixed text; and the
\* handler is never selected or run for a request that is not an IntentRequest.
C4_HolaMundoEndsSession ==
    \A p \in Invocations :
        /\ (Done(p) /\ event[p] = [type |-> "IntentRequest",
                                   intent |-> Some("HolaMundoIntent")]
                    /\ fault[p] = None) =>
               /\ response[p].should_end_session = Some(TRUE)
               /\ response[p].output_speech =
                      Some(SsmlOutputSpeech(HolaMundoIntentHandler_speech_text))
        /\ ("HolaMundoIntentHandler" \in Range(invoked[p]) \cup {chain[p]}) =>
               event[p].type = "IntentRequest"

\* A HolaMundoIntent was handled while a non-intent request carrying that intent
\* name was dispatched too.
C4_Witness ==
    \E p, q \in Invocations :
        /\ Done(p)
        /\ event[p] = [type |-> "IntentRequest", intent |-> Some("HolaMundoIntent")]
        /\ fault[p] = None
        /\ invoked[p] = <<"HolaMundoIntentHandler">>
        /\ Done(q)
        /\ event[q] = [type |-> "SessionEndedRequest", intent |-> Some("HolaMundoIntent")]

\* C5: for an IntentRequest named AMAZON.HelpIntent whose handling raises nothing,
\* the reprompt text equals the speech text, the card is titled "Hola Mundo", and
\* the session is left open.
C5_HelpReprompts ==
    \A p \in Invocations :
        (Done(p) /\ event[p] = [type |-> "IntentRequest",
                                intent |-> Some("AMAZON.HelpIntent")]
                 /\ fault[p] = None) =>
            /\ response[p].output_speech =
                   Some(SsmlOutputSpeech(HelpIntentHandler_speech_text))
            /\ response[p].reprompt # None
            /\ response[p].reprompt[1].output_speech.ssml =
                   response[p].output_speech[1].ssml
            /\ response[p].card # None
            /\ response[p].card[1].title = "Hola Mundo"
            /\ response[p].should_end_session = Some(FALSE)

\* An AMAZON.HelpIntent was handled.
C5_Witness ==
    \E p \in Invocations :
        /\ Done(p)
        /\ event[p] = [type |-> "IntentRequest", intent |-> Some("AMAZON.HelpIntent")]
        /\ fault[p] = None
        /\ invoked[p] = <<"HelpIntentHandler">>

\* The response CancelAndStopIntentHandler.handle builds.
FarewellResponse ==
    [output_speech |-> Some(SsmlOutputSpeech(CancelAndStopIntentHandler_speech_text)),
     card |-> Some(SimpleCard("Hola Mundo", CancelAndStopIntentHandler_speech_text)),
     reprompt |-> None,
     should_end_session |-> Some(TRUE)]

CancelIntent == [type |-> "IntentRequest", intent |-> Some("AMAZON.CancelIntent")]

StopIntent == [type |-> "IntentRequest", intent |-> Some("AMAZON.StopIntent")]

\* C6: an AMAZON.CancelIntent request and an AMAZON.StopIntent request, handled
\* with nothing raised, get responses equal in every field: the farewell speech,
\* the farewell card, and should_end_session true.
C6_CancelStopIdentical ==
    \A p, q \in Invocations :
        (/\ Done(p) /\ event[p] = CancelIntent /\ fault[p] = None
         /\ Done(q) /\ event[q] = StopIntent /\ fault[q] = None) =>
            /\ response[p] = response[q]
            /\ response[p] = FarewellResponse

\* A Cancel and a Stop request have both been handled.
C6_Witness ==
    \E p, q \in Invocations :
        /\ Done(p) /\ event[p] = CancelIntent /\ fault[p] = None
        /\ Done(q) /\ event[q] = StopIntent /\ fault[q] = None
        /\ invoked[p] = <<"CancelAndStopIntentHandler">>
        /\ invoked[q] = <<"CancelAndStopIntentHandler">>

\* C7: a dispatch in which a predicate or an action raised, or no handler matched,
\* for any request type, returns a response with the apology as speech and the
\* session left open; the error never reaches the caller, and no returned response
\* ends the session without speech.
C7_FailuresDegradeToApology ==
    \A p \in Invocations :
        /\ pc[p] # "raised"
        /\ (Done(p) /\ exc[p] # "None") =>
               /\ response[p].output_speech =
                      Some(SsmlOutputSpeech(AllExceptionHandler_speech))
               /\ response[p].output_speech[1].ssml # "<speak></speak>"
               /\ response[p].should_end_session = Some(FALSE)
        /\ (Done(p) /\ response[p].should_end_session = Some(TRUE)) =>
               response[p].output_speech # None

\* A predicate raised in one dispatch, and a session-end request failed in another.
C7_Witness ==
    \E p, q \in Invocations :
        /\ Done(p) /\ exc[p] = "AttributeError"
        /\ Done(q) /\ event[q].type = "SessionEndedRequest" /\ exc[q] # "None"

IsPrefix(s, t) == Len(s) <= Len(t) /\ SubSeq(t, 1, Len(s)) = s

\* C8: predicates are evaluated in registration order (Launch, HolaMundo, Help,
\* CancelAndStop) and stop at the first that returns true; the action of exactly
\* that handler is invoked, and at most one action runs per request.
C8_FirstMatchWins ==
    /\ Ready => request_handlers = <<"LaunchRequestHandler", "HolaMundoIntentHandler",
                                     "HelpIntentHandler", "CancelAndStopIntentHandler">>
    /\ \A p \in Invocations :
        /\ IsPrefix(evaluated[p], request_handlers)
        /\ \A i \in 1..(Len(evaluated[p]) - 1) :
               CanHandle(evaluated[p][i], event[p]) = "False"
        /\ chain[p] # "None" =>
               /\ chain[p] = evaluated[p][Len(evaluated[p])]
               /\ CanHandle(chain[p], event[p]) = "True"
        /\ Len(invoked[p]) <= 1
        /\ invoked[p] # <<>> => invoked[p] = <<chain[p]>>
        /\ (pc[p] \in {"except", "done"} /\ chain[p] # "None") => invoked[p] = <<chain[p]>>

\* A request matched by the third handler: two predicates were false before it.
C8_Witness ==
    \E p \in Invocations :
        /\ Done(p)
        /\ evaluated[p] = <<"LaunchRequestHandler", "HolaMundoIntentHandler",
                            "HelpIntentHandler">>
        /\ invoked[p] = <<"HelpIntentHandler">>

HandlerNames == {Registrations[i].handler :
                    i \in {j \in 1..Len(Registrations) : Registrations[j].kind = "request"}}

\* The sequences that list every element of S once.
RECURSIVE Perms(_)
Perms(S) ==
    IF S = {} THEN {<<>>}
    ELSE UNION {{<<x>> \o q : q \in Perms(S \ {x})} : x \in S}

\* Every order in which the four request handlers could be registered.
Orders == Perms(HandlerNames)

\* The mapper has just made its selection for p: no action has run yet.
Selected(p) == pc[p] \in {"handle", "except"} /\ invoked[p] = <<>>

\* C9: for every request at most one of the four predicates returns true, and the
\* handler selected (or the exception raised) is the same under every
\* registration order of the four handlers.
C9_PredicatesExclusive ==
    \A p \in Invocations :
        Selected(p) =>
            /\ Cardinality({h \in HandlerNames : CanHandle(h, event[p]) = "True"}) <= 1
            /\ \A o \in Orders :
                   LET m == MapperResult(o, event[p]) IN
                   /\ m.chain = chain[p]
                   /\ m.exc = exc[p]

\* A non-intent request carrying a registered intent name, and an intent request,
\* have each had a handler selected.
C9_Witness ==
    \E p, q \in Invocations :
        /\ Selected(p)
        /\ event[p] = [type |-> "LaunchRequest", intent |-> Some("HolaMundoIntent")]
        /\ chain[p] = "LaunchRequestHandler"
        /\ Selected(q)
        /\ event[q] = StopIntent
        /\ chain[q] = "CancelAndStopIntentHandler"

\* What one dispatch of ev returns when run alone on the registry of lines 116-120;
\* f is the point at which the selected action raised, or None.
SoloResponse(ev, f) ==
    LET chains == [i \in 1..Cardinality(HandlerNames) |-> Registrations[i].handler]
        m == MapperResult(chains, ev)
        handled == IF m.chain = "None" THEN EmptyResponse
                   ELSE RunCalls(EmptyResponse, Calls(m.chain),
                                 IF f = None THEN Len(Calls(m.chain)) ELSE f[1])
    IN  IF m.exc = "None" /\ f = None THEN handled
        ELSE RunCalls(handled, AllExceptionHandler_calls, Len(AllExceptionHandler_calls))

\* C10: once the module is loaded no step changes the handler registry, and every
\* dispatch, however interleaved with others and whatever was dispatched before,
\* returns the response it returns when run alone.
C10_RegistryImmutableDispatchIndependent ==
    /\ [][Ready => registry' = registry]_vars
    /\ [](\A p \in Invocations : Done(p) => response[p] = SoloResponse(event[p], fault[p]))

\* One dispatch has returned while another, of a different request, is in progress.
C10_Witness ==
    \E p, q \in Invocations :
        /\ Done(p)
        /\ pc[q] \in {"handle", "except"}
        /\ event[p] # event[q]
        /\ response[p] # EmptyResponse
        /\ response[q] # EmptyResponse

====
